---- MODULE Spec2Model ----
(***************************************************************************)
(* Model of word_to_base64image (src/word2base64image.py): Word -> PDF     *)
(* through LibreOffice with a Microsoft Word COM fallback, PDF -> page     *)
(* images, vertical concatenation, img.jpg and base64.txt.                 *)
(*                                                                         *)
(* Paths are modelled structurally: a source path is a record              *)
(* [dir, name, ext]; an output path is a record [dir, folder, file] whose  *)
(* file is the pair <<stem, extension>>.  File contents are abstracted to  *)
(* the number of the invocation that wrote them (0 = the file is absent).  *)
(* A page image is the pair <<width, height>> of its pixel dimensions.     *)
(***************************************************************************)
EXTENDS Integers, Sequences, FiniteSets, TLC

\* ---------------------------------------------------------------- bounds
MaxInvocations == 2
MaxPages == 3
MaxPageWidth == 3
MaxPageHeight == 2
MaxDocPages == 2

\* ------------------------------------------------------- inputs and names
SourcePaths ==
  { [dir |-> "documents", name |-> "demo", ext |-> "docx"],
    [dir |-> "documents", name |-> "report", ext |-> "docx"] }

PageDims == (1..MaxPageWidth) \X (1..MaxPageHeight)

\* the rendered documents of the composition runs
PageSeqs == UNION { [1..n -> PageDims] : n \in 0..MaxPages }

\* the rendered documents of the pipeline runs: short, of small and large pages
DocPageDims == { <<1, 1>>, <<MaxPageWidth, MaxPageHeight>> }
DocPageSeqs == UNION { [1..n -> DocPageDims] : n \in 0..MaxDocPages }

\* os.path.splitext(os.path.basename(word_path))[0]
NameWithoutExt(p) == p.name

\* os.path.join(word_dir, name_without_ext)
OutputFolder(p) == [dir |-> p.dir, folder |-> NameWithoutExt(p)]

JoinFolder(f, stem, ext) == [dir |-> f.dir, folder |-> f.folder, file |-> <<stem, ext>>]

PdfPath(p) == JoinFolder(OutputFolder(p), NameWithoutExt(p), "pdf")
ImagePath(p) == JoinFolder(OutputFolder(p), "img", "jpg")
Base64TxtPath(p) == JoinFolder(OutputFolder(p), "base64", "txt")

\* the file LibreOffice leaves in --outdir: <outdir>/<name_without_ext>.pdf
GeneratedPdf(p) == JoinFolder(OutputFolder(p), NameWithoutExt(p), "pdf")

Folders == { OutputFolder(p) : p \in SourcePaths }
OutFiles == UNION { {PdfPath(p), ImagePath(p), Base64TxtPath(p)} : p \in SourcePaths }

\* outcomes of subprocess.run(['libreoffice', ...], check=True, timeout=120):
\* FileNotFoundError, TimeoutExpired, CalledProcessError, and exit status 0
\* with or without a PDF in --outdir (the two cases `os.path.exists` tells apart)
AOutcomes == {"not_found", "timeout", "nonzero_exit", "exit0_pdf", "exit0_nopdf"}

\* outcomes of the win32com block
BOutcomes == {"import_error", "com_error_before_save", "com_error_after_save", "ok"}

NoPath == [dir |-> "", name |-> "", ext |-> ""]
NoError == [kind |-> "none", reasons |-> {}]
NoPrev == [path |-> NoPath, ok |-> FALSE, ret |-> <<>>]

VARIABLES
  osName,        \* os.name of the host
  source_exists, \* what os.path.exists(word_path) found, "unchecked" before the test
  dirs,          \* the output folders that exist
  fs,            \* output file -> number of the invocation that wrote it, 0 = absent
  inv,           \* number of the current invocation
  pc,            \* position inside word_to_base64image
  word_path,     \* argument of the current invocation
  converted,     \* the local flag `converted`
  aOutcome,      \* what backend A did in this invocation ("none" = not run)
  bOutcome,      \* what backend B did in this invocation ("none" = not run)
  events,        \* external effects of this invocation, in order
  printed,       \* failure reasons printed to the console by this invocation
  page_count,    \* len(pdf), -1 while no PDF has been opened
  pages,         \* pixel dimensions of the pages of the opened PDF
  images,        \* the list `images`
  total_height,
  max_width,
  canvas,        \* size of `concatenated`, <<0, 0>> before it is allocated
  y_offset,
  idx,           \* index of the next image of the paste loop
  pastes,        \* the paste calls made so far
  err,           \* the exception that ended the invocation
  ret,           \* the returned tuple, <<>> when nothing was returned
  prev           \* path, outcome and return value of the previous invocation

vars == <<osName, source_exists, dirs, fs, inv, pc, word_path, converted, aOutcome,
          bOutcome, events, printed, page_count, pages, images, total_height, max_width,
          canvas, y_offset, idx, pastes, err, ret, prev>>

geomVars == <<page_count, pages, images, total_height, max_width, canvas, y_offset, idx, pastes>>
backendVars == <<converted, aOutcome, bOutcome, printed>>

Init ==
  /\ osName \in {"nt", "posix"}
  /\ source_exists = "unchecked"
  /\ dirs = {}
  /\ fs = [f \in OutFiles |-> 0]
  /\ inv = 0
  /\ pc = "idle"
  /\ word_path = NoPath
  /\ converted = FALSE
  /\ aOutcome = "none"
  /\ bOutcome = "none"
  /\ events = <<>>
  /\ printed = <<>>
  /\ page_count = -1
  /\ pages = <<>>
  /\ images = <<>>
  /\ total_height = 0
  /\ max_width = 0
  /\ canvas = <<0, 0>>
  /\ y_offset = 0
  /\ idx = 1
  /\ pastes = <<>>
  /\ err = NoError
  /\ ret = <<>>
  /\ prev = NoPrev

\* ------------------------------------------------------------ operations

\* a caller invokes word_to_base64image(word_path)
Call(p) ==
  /\ pc \in {"idle", "done"}
  /\ inv < MaxInvocations
  /\ inv' = inv + 1
  /\ word_path' = p
  /\ prev' = IF pc = "done"
             THEN [path |-> word_path, ok |-> (err.kind = "none"), ret |-> ret]
             ELSE prev
  /\ pc' = "start"
  /\ converted' = FALSE
  /\ aOutcome' = "none"
  /\ bOutcome' = "none"
  /\ events' = <<>>
  /\ printed' = <<>>
  /\ page_count' = -1
  /\ pages' = <<>>
  /\ images' = <<>>
  /\ total_height' = 0
  /\ max_width' = 0
  /\ canvas' = <<0, 0>>
  /\ y_offset' = 0
  /\ idx' = 1
  /\ pastes' = <<>>
  /\ err' = NoError
  /\ ret' = <<>>
  /\ source_exists' = "unchecked"
  /\ UNCHANGED <<osName, dirs, fs>>

\* variant: the output folder is created before the existence check
CheckSourceAfterMakedirs(exists) ==
  /\ pc = "start"
  /\ source_exists' = (IF exists THEN "exists" ELSE "missing")
  /\ dirs' = dirs \cup {OutputFolder(word_path)}
  /\ events' = Append(events, "makedirs")
  /\ IF ~exists
     THEN /\ err' = [kind |-> "FileNotFoundError", reasons |-> {}]
          /\ pc' = "done"
     ELSE /\ pc' = "backendA"
          /\ UNCHANGED err
  /\ UNCHANGED <<osName, fs, inv, word_path, backendVars, geomVars, ret, prev>>

\* existence check, then os.makedirs(output_folder, exist_ok=True)
CheckSource(exists) ==
  /\ pc = "start"
  /\ source_exists' = (IF exists THEN "exists" ELSE "missing")
  /\ IF ~exists
     THEN /\ err' = [kind |-> "FileNotFoundError", reasons |-> {}]
          /\ pc' = "done"
          /\ UNCHANGED <<dirs, events>>
     ELSE /\ dirs' = dirs \cup {OutputFolder(word_path)}
          /\ events' = Append(events, "makedirs")
          /\ pc' = "backendA"
          /\ UNCHANGED err
  /\ UNCHANGED <<osName, fs, inv, word_path, backendVars, geomVars, ret, prev>>

\* variant: method 2 runs on Windows whether or not method 1 converted
EntersBIgnoringConverted(conv) == osName = "nt"

\* whether method 2 is entered after method 1
EntersB(conv) == ~conv /\ osName = "nt"

\* variant: a first timeout of LibreOffice is followed by a second run
BackendARetriesTimeout(o) ==
  /\ pc = "backendA"
  /\ aOutcome' = o
  /\ events' = Append(events, "A")
  /\ LET written == IF o = "exit0_pdf"
                    THEN [fs EXCEPT ![GeneratedPdf(word_path)] = inv]
                    ELSE fs
         exited0 == o \in {"exit0_pdf", "exit0_nopdf"}
         found == exited0 /\ written[GeneratedPdf(word_path)] # 0
         moved == IF found /\ GeneratedPdf(word_path) # PdfPath(word_path)
                  THEN [written EXCEPT ![PdfPath(word_path)] = written[GeneratedPdf(word_path)],
                                       ![GeneratedPdf(word_path)] = 0]
                  ELSE written
     IN /\ fs' = moved
        /\ converted' = found
        /\ printed' = IF exited0 THEN printed ELSE Append(printed, o)
        /\ pc' = IF o = "timeout" /\ aOutcome = "none" THEN "backendA"
              ELSE IF EntersB(found) THEN "backendB" ELSE "checkConverted"
  /\ UNCHANGED <<osName, source_exists, dirs, inv, word_path, bOutcome, geomVars, err, ret, prev>>

\* variant: exit status 0 counts as converted without looking for the PDF
BackendANoExistsCheck(o) ==
  /\ pc = "backendA"
  /\ aOutcome' = o
  /\ events' = Append(events, "A")
  /\ LET written == IF o = "exit0_pdf"
                    THEN [fs EXCEPT ![GeneratedPdf(word_path)] = inv]
                    ELSE fs
         exited0 == o \in {"exit0_pdf", "exit0_nopdf"}
         found == exited0
         moved == IF found /\ GeneratedPdf(word_path) # PdfPath(word_path)
                  THEN [written EXCEPT ![PdfPath(word_path)] = written[GeneratedPdf(word_path)],
                                       ![GeneratedPdf(word_path)] = 0]
                  ELSE written
     IN /\ fs' = moved
        /\ converted' = found
        /\ printed' = IF exited0 THEN printed ELSE Append(printed, o)
        /\ pc' = IF EntersB(found) THEN "backendB" ELSE "checkConverted"
  /\ UNCHANGED <<osName, source_exists, dirs, inv, word_path, bOutcome, geomVars, err, ret, prev>>

\* method 1: LibreOffice
BackendA(o) ==
  /\ pc = "backendA"
  /\ aOutcome' = o
  /\ events' = Append(events, "A")
  /\ LET written == IF o = "exit0_pdf"
                    THEN [fs EXCEPT ![GeneratedPdf(word_path)] = inv]
                    ELSE fs
         exited0 == o \in {"exit0_pdf", "exit0_nopdf"}
         found == exited0 /\ written[GeneratedPdf(word_path)] # 0
         moved == IF found /\ GeneratedPdf(word_path) # PdfPath(word_path)
                  THEN [written EXCEPT ![PdfPath(word_path)] = written[GeneratedPdf(word_path)],
                                       ![GeneratedPdf(word_path)] = 0]
                  ELSE written
     IN /\ fs' = moved
        /\ converted' = found
        /\ printed' = IF exited0 THEN printed ELSE Append(printed, o)
        /\ pc' = IF EntersB(found) THEN "backendB" ELSE "checkConverted"
  /\ UNCHANGED <<osName, source_exists, dirs, inv, word_path, bOutcome, geomVars, err, ret, prev>>

\* variant: `converted = True` is reached on the COM failure paths too
BackendBAlwaysConverted(o) ==
  /\ pc = "backendB"
  /\ bOutcome' = o
  /\ events' = Append(events, "B")
  /\ fs' = IF o \in {"com_error_after_save", "ok"}
           THEN [fs EXCEPT ![PdfPath(word_path)] = inv]
           ELSE fs
  /\ converted' = TRUE
  /\ printed' = IF o = "ok" THEN printed ELSE Append(printed, o)
  /\ pc' = "checkConverted"
  /\ UNCHANGED <<osName, source_exists, dirs, inv, word_path, aOutcome, geomVars, err, ret, prev>>

\* method 2: Microsoft Word COM, on Windows only
BackendB(o) ==
  /\ pc = "backendB"
  /\ bOutcome' = o
  /\ events' = Append(events, "B")
  /\ fs' = IF o \in {"com_error_after_save", "ok"}
           THEN [fs EXCEPT ![PdfPath(word_path)] = inv]
           ELSE fs
  /\ converted' = (o = "ok")
  /\ printed' = IF o = "ok" THEN printed ELSE Append(printed, o)
  /\ pc' = "checkConverted"
  /\ UNCHANGED <<osName, source_exists, dirs, inv, word_path, aOutcome, geomVars, err, ret, prev>>

\* the message of the RuntimeError names no failure reason
ConversionErrorReasons(a, b) == {}

\* if not converted: raise RuntimeError(...)
CheckConverted ==
  /\ pc = "checkConverted"
  /\ IF ~converted
     THEN /\ err' = [kind |-> "RuntimeError",
                     reasons |-> ConversionErrorReasons(aOutcome, bOutcome)]
          /\ pc' = "done"
     ELSE /\ pc' = "rasterize"
          /\ UNCHANGED err
  /\ UNCHANGED <<osName, source_exists, dirs, fs, inv, word_path, backendVars, events, geomVars, ret, prev>>

\* for page_num in range(len(pdf)): images.append(<pixmap of page page_num>)
\* variant: images.insert(0, img) in place of images.append(img)
RECURSIVE RenderLoopPrepending(_, _, _, _)
RenderLoopPrepending(ps, n, page_num, acc) ==
  IF page_num >= n THEN acc
  ELSE RenderLoopPrepending(ps, n, page_num + 1, <<ps[page_num + 1]>> \o acc)

RECURSIVE RenderLoop(_, _, _, _)
RenderLoop(ps, n, page_num, acc) ==
  IF page_num >= n THEN acc
  ELSE RenderLoop(ps, n, page_num + 1, Append(acc, ps[page_num + 1]))

\* sum(img.height for img in images)
RECURSIVE SumHeights(_, _, _)
SumHeights(imgs, i, acc) ==
  IF i > Len(imgs) THEN acc ELSE SumHeights(imgs, i + 1, acc + imgs[i][2])

\* variant: min in place of max
RECURSIVE MinWidthOf(_, _, _)
MinWidthOf(imgs, i, best) ==
  IF i > Len(imgs) THEN best
  ELSE MinWidthOf(imgs, i + 1, IF imgs[i][1] < best THEN imgs[i][1] ELSE best)

\* max(img.width for img in images), images not empty
RECURSIVE MaxWidthOf(_, _, _)
MaxWidthOf(imgs, i, best) ==
  IF i > Len(imgs) THEN best
  ELSE MaxWidthOf(imgs, i + 1, IF imgs[i][1] > best THEN imgs[i][1] ELSE best)

\* variant: the half is rounded up
XOffsetRoundedUp(mw, w) == (mw - w + 1) \div 2

\* (max_width - img.width) // 2
XOffset(mw, w) == (mw - w) \div 2

\* variant: an empty page list is not rejected and goes on to be saved
RasterizeWithoutEmptyCheck(docs) ==
  /\ pc = "rasterize"
  /\ \E ps \in docs, opens \in BOOLEAN :
       IF ~opens
       THEN /\ err' = [kind |-> "FitzError", reasons |-> {}]
            /\ pc' = "done"
            /\ UNCHANGED <<page_count, pages, images>>
       ELSE /\ pages' = ps
            /\ page_count' = Len(ps)
            /\ images' = RenderLoop(ps, Len(ps), 0, <<>>)
            /\ pc' = IF images' = <<>> THEN "saveImage" ELSE "compose"
            /\ UNCHANGED err
  /\ UNCHANGED <<osName, source_exists, dirs, fs, inv, word_path, backendVars, events,
                 total_height, max_width, canvas, y_offset, idx, pastes, ret, prev>>

\* fitz.open, the page loop, pdf.close(), the empty check; docs are the
\* documents the PDF at pdf_path may turn out to be, and fitz.open may raise
Rasterize(docs) ==
  /\ pc = "rasterize"
  /\ \E ps \in docs, opens \in BOOLEAN :
       IF ~opens
       THEN /\ err' = [kind |-> "FitzError", reasons |-> {}]
            /\ pc' = "done"
            /\ UNCHANGED <<page_count, pages, images>>
       ELSE /\ pages' = ps
            /\ page_count' = Len(ps)
            /\ images' = RenderLoop(ps, Len(ps), 0, <<>>)
            /\ IF images' = <<>>
               THEN /\ err' = [kind |-> "ValueError", reasons |-> {}]
                    /\ pc' = "done"
               ELSE /\ pc' = "compose"
                    /\ UNCHANGED err
  /\ UNCHANGED <<osName, source_exists, dirs, fs, inv, word_path, backendVars, events,
                 total_height, max_width, canvas, y_offset, idx, pastes, ret, prev>>

\* total_height, max_width, Image.new('RGB', (max_width, total_height)), y_offset = 0
Compose ==
  /\ pc = "compose"
  /\ total_height' = SumHeights(images, 1, 0)
  /\ max_width' = MaxWidthOf(images, 2, images[1][1])
  /\ canvas' = <<max_width', total_height'>>
  /\ y_offset' = 0
  /\ idx' = 1
  /\ pc' = "paste"
  /\ UNCHANGED <<osName, source_exists, dirs, fs, inv, word_path, backendVars, events,
                 page_count, pages, images, pastes, err, ret, prev>>

\* one iteration of `for img in images`
Paste ==
  /\ pc = "paste"
  /\ idx <= Len(images)
  /\ LET img == images[idx]
         x_offset == XOffset(max_width, img[1])
     IN /\ pastes' = Append(pastes, [page |-> idx, x |-> x_offset, y |-> y_offset,
                                     w |-> img[1], h |-> img[2]])
        /\ y_offset' = y_offset + img[2]
  /\ idx' = idx + 1
  /\ pc' = IF idx' > Len(images) THEN "saveImage" ELSE "paste"
  /\ UNCHANGED <<osName, source_exists, dirs, fs, inv, word_path, backendVars, events,
                 page_count, pages, images, total_height, max_width, canvas, err, ret, prev>>

\* concatenated.save(image_path, 'JPEG', quality=95)
SaveImage(writes) ==
  /\ pc = "saveImage"
  /\ IF writes
     THEN /\ fs' = [fs EXCEPT ![ImagePath(word_path)] = inv]
          /\ events' = Append(events, "img")
          /\ pc' = "saveBase64"
          /\ UNCHANGED err
     ELSE /\ err' = [kind |-> "OSError", reasons |-> {}]
          /\ pc' = "done"
          /\ UNCHANGED <<fs, events>>
  /\ UNCHANGED <<osName, source_exists, dirs, inv, word_path, backendVars, geomVars, ret, prev>>

\* the returned tuple
ReturnValue(p) == <<PdfPath(p), ImagePath(p), Base64TxtPath(p)>>

\* base64 of the JPEG bytes, write of base64.txt, return
SaveBase64(writes) ==
  /\ pc = "saveBase64"
  /\ IF writes
     THEN /\ fs' = [fs EXCEPT ![Base64TxtPath(word_path)] = inv]
          /\ events' = Append(events, "b64")
          /\ ret' = ReturnValue(word_path)
          /\ UNCHANGED err
     ELSE /\ err' = [kind |-> "OSError", reasons |-> {}]
          /\ UNCHANGED <<fs, events, ret>>
  /\ pc' = "done"
  /\ UNCHANGED <<osName, source_exists, dirs, inv, word_path, backendVars, geomVars, prev>>

Next ==
  \/ \E p \in SourcePaths : Call(p)
  \/ \E exists \in BOOLEAN : CheckSource(exists)
  \/ \E o \in AOutcomes : BackendA(o)
  \/ \E o \in BOutcomes : BackendB(o)
  \/ CheckConverted
  \/ Rasterize(DocPageSeqs)
  \/ Compose
  \/ Paste
  \/ \E writes \in BOOLEAN : SaveImage(writes)
  \/ \E writes \in BOOLEAN : SaveBase64(writes)

Spec == Init /\ [][Next]_vars

\* ---------------------------------------------- composition of one document
\* The first invocation at the moment LibreOffice has written the PDF; the
\* rendered document is then any sequence of pages of PageSeqs.
InitCompose ==
  /\ osName \in {"nt", "posix"}
  /\ source_exists = "exists"
  /\ word_path \in SourcePaths
  /\ dirs = {OutputFolder(word_path)}
  /\ fs = [f \in OutFiles |-> IF f = PdfPath(word_path) THEN 1 ELSE 0]
  /\ inv = 1
  /\ pc = "rasterize"
  /\ converted = TRUE
  /\ aOutcome = "exit0_pdf"
  /\ bOutcome = "none"
  /\ events = <<"makedirs", "A">>
  /\ printed = <<>>
  /\ page_count = -1
  /\ pages = <<>>
  /\ images = <<>>
  /\ total_height = 0
  /\ max_width = 0
  /\ canvas = <<0, 0>>
  /\ y_offset = 0
  /\ idx = 1
  /\ pastes = <<>>
  /\ err = NoError
  /\ ret = <<>>
  /\ prev = NoPrev

NextCompose ==
  \/ Rasterize(PageSeqs)
  \/ Compose
  \/ Paste
  \/ \E writes \in BOOLEAN : SaveImage(writes)
  \/ \E writes \in BOOLEAN : SaveBase64(writes)

SpecCompose == InitCompose /\ [][NextCompose]_vars

\* ------------------------------------------------------------ properties

Failures == {"not_found", "timeout", "nonzero_exit"}
BFailures == {"import_error", "com_error_before_save", "com_error_after_save"}

Count(seq, e) == Cardinality({ i \in 1..Len(seq) : seq[i] = e })
Before(seq, a, b) ==
  \A i, j \in 1..Len(seq) : (seq[i] = a /\ seq[j] = b) => i < j

\* the canvas has been allocated
Allocated == canvas # <<0, 0>>

\* the paste loop has ended
Pasted == pc \in {"saveImage", "saveBase64"} \/ (pc = "done" /\ Allocated)

\* sum of the heights of the first k pages, counted pixel row by pixel row
RowsAbove(ps, k) ==
  Cardinality({ c \in (1..k) \X (1..MaxPageHeight) : c[2] <= ps[c[1]][2] })

\* C1: once the canvas is allocated, its width is the largest page width
\* (no page is wider, some page is as wide) and its height is the sum of the
\* page heights.
CanvasIsMaxWidthBySumHeight ==
  Allocated =>
    /\ Len(pages) >= 1
    /\ \A i \in 1..Len(pages) : pages[i][1] <= canvas[1]
    /\ \E i \in 1..Len(pages) : pages[i][1] = canvas[1]
    /\ canvas[2] = RowsAbove(pages, Len(pages))

\* three pages, the second the narrowest and tallest, the third the widest
CanvasOfThreePages ==
  /\ Allocated
  /\ pages = << <<2, 1>>, <<1, 2>>, <<3, 1>> >>
  /\ canvas = <<3, 4>>

\* C2: the images are the pages in page order; the i-th paste is page i at
\* the height of the pages above it, so each paste begins where the one
\* before ends; after the loop there is one paste for each page and the
\* cursor is the canvas height.
PagesStackedInOrder ==
  /\ page_count >= 0 => (Len(images) = page_count /\ images = pages)
  /\ Len(pastes) <= Len(pages)
  /\ \A i \in 1..Len(pastes) :
       /\ pastes[i].page = i
       /\ <<pastes[i].w, pastes[i].h>> = pages[i]
       /\ pastes[i].y = RowsAbove(pages, i - 1)
       /\ i > 1 => pastes[i].y = pastes[i - 1].y + pastes[i - 1].h
  /\ pc = "paste" => y_offset = RowsAbove(pages, Len(pastes))
  /\ Pasted => (Len(pastes) = page_count /\ y_offset = canvas[2])

\* three pages of unequal heights, all pasted
ThreePagesStacked ==
  /\ Pasted
  /\ Len(pastes) = 3
  /\ pages[1] # pages[2]
  /\ pages[1][2] = 2
  /\ pastes[3].y = pages[1][2] + pages[2][2]

\* C3: every paste is at the floor of half the free width, never negative,
\* and the page ends inside the canvas; a page of the canvas width is at 0.
PagesCenteredInsideCanvas ==
  \A i \in 1..Len(pastes) :
    LET free == canvas[1] - pastes[i].w
    IN /\ 2 * pastes[i].x <= free
       /\ free < 2 * pastes[i].x + 2
       /\ pastes[i].x >= 0
       /\ pastes[i].x + pastes[i].w <= canvas[1]
       /\ pastes[i].w = canvas[1] => pastes[i].x = 0

\* widths 2, 1, 3 are pasted at 0, 1, 0: an odd and an even free width
ThreePagesCentered ==
  /\ Len(pastes) = 3
  /\ <<pastes[1].w, pastes[2].w, pastes[3].w>> = <<2, 1, 3>>
  /\ <<pastes[1].x, pastes[2].x, pastes[3].x>> = <<0, 1, 0>>

\* C4: a source path that does not exist ends the invocation with
\* FileNotFoundError at the test itself: nothing was created, run or written,
\* and FileNotFoundError has no other origin.
MissingSourceFailsFirst ==
  /\ source_exists = "missing" =>
       /\ pc = "done"
       /\ err.kind = "FileNotFoundError"
       /\ events = <<>>
       /\ aOutcome = "none" /\ bOutcome = "none"
       /\ \A f \in OutFiles : fs[f] # inv
       /\ inv = 1 => dirs = {}
       /\ ret = <<>>
  /\ err.kind = "FileNotFoundError" => source_exists = "missing"

\* the second invocation is on a missing path, after a first that returned
MissingSourceAfterSuccess ==
  /\ source_exists = "missing"
  /\ inv = 2
  /\ prev.ok
  /\ err.kind = "FileNotFoundError"

\* the backend stage of the invocation is over
PastBackends ==
  \/ pc \in {"checkConverted", "rasterize", "compose", "paste", "saveImage", "saveBase64"}
  \/ pc = "done" /\ aOutcome # "none"

\* C5: LibreOffice is first; after it was not found, timed out or exited
\* non-zero, Word COM is attempted on Windows; Word COM is attempted only on
\* Windows, only after LibreOffice and only when LibreOffice did not convert.
FallbackInPriorityOrder ==
  /\ (PastBackends /\ aOutcome \in Failures /\ osName = "nt") => bOutcome # "none"
  /\ aOutcome = "exit0_pdf" => (bOutcome = "none" /\ converted)
  /\ bOutcome # "none" =>
       /\ osName = "nt"
       /\ aOutcome \in Failures \cup {"exit0_nopdf"}
       /\ Before(events, "A", "B")
       /\ Count(events, "A") = 1
  /\ (PastBackends /\ converted /\ bOutcome = "none") =>
       aOutcome \in {"exit0_pdf", "exit0_nopdf"}

\* LibreOffice timed out and Word COM converted; the invocation returned
FallbackConverted ==
  /\ pc = "done"
  /\ osName = "nt"
  /\ aOutcome = "timeout"
  /\ bOutcome = "ok"
  /\ ret # <<>>

\* LibreOffice failed with an exception, and Word COM failed or does not apply
BothBackendsFailed ==
  /\ pc = "done"
  /\ aOutcome \in Failures
  /\ (osName # "nt" \/ bOutcome \in BFailures)

\* C6 as stated: the error raised when both backends failed carries the
\* reason of each failure.
ConversionErrorAggregatesReasons ==
  BothBackendsFailed =>
    /\ err.kind = "RuntimeError"
    /\ aOutcome \in err.reasons
    /\ bOutcome \in BFailures => bOutcome \in err.reasons

\* C6 amended: the error raised when both backends failed is a RuntimeError
\* that carries no reason; the reasons were printed, in the order of the
\* attempts, and nothing was returned or written after the backends.
ConversionErrorWithPrintedReasons ==
  /\ BothBackendsFailed =>
       /\ err.kind = "RuntimeError"
       /\ err.reasons = {}
       /\ printed = IF bOutcome \in BFailures THEN <<aOutcome, bOutcome>> ELSE <<aOutcome>>
       /\ ret = <<>>
       /\ page_count = -1
  /\ err.kind = "RuntimeError" =>
       /\ ~converted
       /\ aOutcome \in Failures \cup {"exit0_nopdf"}
       /\ (osName # "nt" \/ bOutcome \in BFailures)

\* on Windows both failed, on another host LibreOffice alone
BothFailedOnWindows ==
  /\ BothBackendsFailed
  /\ osName = "nt"
  /\ aOutcome = "nonzero_exit"
  /\ bOutcome = "com_error_before_save"
  /\ err.kind = "RuntimeError"

\* C7: a PDF of zero pages ends the invocation with ValueError, and this
\* invocation wrote neither img.jpg nor base64.txt; ValueError has no other
\* origin.
EmptyDocumentRejected ==
  /\ page_count = 0 =>
       /\ pc = "done"
       /\ err.kind = "ValueError"
       /\ Count(events, "img") = 0 /\ Count(events, "b64") = 0
       /\ fs[ImagePath(word_path)] # inv
       /\ fs[Base64TxtPath(word_path)] # inv
       /\ ~Allocated
       /\ ret = <<>>
  /\ err.kind = "ValueError" => page_count = 0

\* a zero-page document in a second invocation, the artifacts of the first
\* still in place
EmptyDocumentAfterSuccess ==
  /\ page_count = 0
  /\ inv = 2
  /\ prev.ok /\ prev.path = word_path
  /\ fs[ImagePath(word_path)] = 1
  /\ fs[Base64TxtPath(word_path)] = 1

\* the invocation returned, and so did the one before it, on the same path
ReturnedTwice ==
  /\ pc = "done"
  /\ err.kind = "none"
  /\ ret # <<>>
  /\ prev.ok
  /\ prev.path = word_path

\* C8 as stated: two successive invocations that return on the same path
\* return the same paths, and the PDF, img.jpg and base64.txt at them are
\* those the second invocation wrote.
RepeatOverwritesAllArtifacts ==
  ReturnedTwice =>
    /\ ret = prev.ret
    /\ fs[ret[1]] = inv
    /\ fs[ret[2]] = inv
    /\ fs[ret[3]] = inv

\* C9: in one invocation LibreOffice runs at most once and Word COM at most
\* once, LibreOffice first; after a timeout LibreOffice has run exactly once.
NoRetryWithinInvocation ==
  /\ Count(events, "A") <= 1
  /\ Count(events, "B") <= 1
  /\ Before(events, "A", "B")
  /\ Count(events, "A") = (IF aOutcome = "none" THEN 0 ELSE 1)
  /\ Count(events, "B") = (IF bOutcome = "none" THEN 0 ELSE 1)
  /\ aOutcome = "timeout" =>
       /\ Count(events, "A") = 1
       /\ pc # "backendA"
       /\ ~converted \/ bOutcome = "ok"

\* LibreOffice timed out, Word COM ran, the invocation ended
TimeoutThenFallback ==
  /\ pc = "done"
  /\ aOutcome = "timeout"
  /\ bOutcome \in BFailures
  /\ events = <<"makedirs", "A", "B">>

\* C10: a value is returned only at the end of an invocation without error,
\* in which a backend converted, the PDF had a page, img.jpg then base64.txt
\* were written; the value is the three paths under <dir>/<name>/; and
\* LibreOffice counts as converted only on exit status 0 with a PDF at
\* pdf_path.  An invocation that ends without error returns.
ReturnsOnlyAfterFullPipeline ==
  /\ ret # <<>> =>
       /\ pc = "done"
       /\ err.kind = "none"
       /\ source_exists = "exists"
       /\ converted
       /\ page_count >= 1
       /\ Count(events, "img") = 1 /\ Count(events, "b64") = 1
       /\ Before(events, "img", "b64")
       /\ Before(events, "A", "img")
       /\ fs[ImagePath(word_path)] = inv
       /\ fs[Base64TxtPath(word_path)] = inv
       /\ fs[PdfPath(word_path)] # 0
       /\ OutputFolder(word_path) \in dirs
       /\ Len(ret) = 3
       /\ \A i \in 1..3 : ret[i].dir = word_path.dir /\ ret[i].folder = word_path.name
       /\ ret[1].file = <<word_path.name, "pdf">>
       /\ ret[2].file = <<"img", "jpg">>
       /\ ret[3].file = <<"base64", "txt">>
  /\ (converted /\ bOutcome # "ok") =>
       /\ aOutcome \in {"exit0_pdf", "exit0_nopdf"}
       /\ fs[PdfPath(word_path)] # 0
  /\ (pc = "done" /\ err.kind = "none") => ret # <<>>

\* a return after LibreOffice exited 0 and left its PDF
ReturnedAfterLibreOffice ==
  /\ ret # <<>>
  /\ aOutcome = "exit0_pdf"
  /\ bOutcome = "none"
  /\ page_count = 2

====
